---------------------------- MODULE Spec2Model ----------------------------
(* Limbic-Flow: the affect core (EmotionEngine), the memory store           *)
(* (FileHippocampus) and the pathology chains, as state machines.           *)
(*                                                                          *)
(* Floats are fixed-point integers in thousandths (Scale).  Wall-clock time *)
(* is counted in whole seconds.                                             *)
EXTENDS Integers, Sequences, FiniteSets, TLC

VARIABLES
    engine,        \* EmotionEngine fields
    updates,       \* number of EmotionEngine.update calls made
    lastStimulus,  \* arguments of the last update call
    kind,          \* which HippocampusInterface implementation: "file" or "mock"
    memories,      \* the store's in-memory index, in insertion order
    next_id,       \* the store's next-id counter
    file,          \* the file at storage_path
    clock,         \* wall-clock time (time.time()) seen by the store
    ret,           \* what the store's last call did and returned
    issued,        \* the ids returned by store_memory so far, with their records
    ioFailed,      \* whether a file write or load has failed so far
    storeCalls,    \* number of store_memory calls made
    restarts,      \* number of times a new store instance was constructed
    inst,          \* per process: the in-memory index and counter of its store instance
    pc,            \* per process: where it is in start-up or in store_memory
    turns,         \* per process: the number of turns that have stored their record
    sawPartial,    \* whether a start-up load has read a partially written file
    chain,         \* the pathology chain: which manager class, and its policies in order
    heap,          \* the memory dicts and pad dicts allocated so far
    cog,           \* the turn's state: raw memories, distorted memories, affect
    trace,         \* what each policy of the chain was given and what it returned
    phase,         \* "built", "retrieved", then "returned" or "raised"
    pol,           \* a depression policy, the affect it is asked about, its answers
    dis,           \* one policy's distort_memories call: its arguments and its result
    artic,         \* MotorCortex.articulate: its arguments and the actions it returned
    turn           \* one process_input call: its stage, its inputs, what it produced

affectVars == <<engine, updates, lastStimulus>>
storeVars == <<kind, memories, next_id, file, clock, ret, issued, ioFailed,
               storeCalls, restarts>>
concVars == <<inst, pc, turns, sawPartial>>
chainVars == <<chain, heap, cog, trace, phase>>
policyVars == <<pol, dis>>
articVars == <<artic>>
turnVars == <<turn>>
restVars == <<policyVars, articVars, turnVars>>
vars == <<affectVars, storeVars, concVars, chainVars, restVars>>
notAffect == <<storeVars, concVars, chainVars, restVars>>
notStore == <<affectVars, concVars, chainVars, restVars>>

----------------------------------------------------------------------------
(* Arithmetic helpers                                                       *)

Scale == 1000

Max(a, b) == IF a >= b THEN a ELSE b
Min(a, b) == IF a <= b THEN a ELSE b
Abs(a) == IF a >= 0 THEN a ELSE -a

\* a * b for two fixed-point numbers, rounded toward zero
Mul(a, b) == IF a * b >= 0 THEN (a * b) \div Scale ELSE -((-(a * b)) \div Scale)

RECURSIVE Pow2(_)
Pow2(n) == IF n = 0 THEN 1 ELSE 2 * Pow2(n - 1)

\* 2^(-j/36) in thousandths, j = 0..35
Pow2NegFrac == <<1000, 981, 962, 944, 926, 908, 891, 874, 857, 841, 825, 809,
                 794, 779, 764, 749, 735, 721, 707, 694, 680, 667, 655, 642,
                 630, 618, 606, 595, 583, 572, 561, 551, 540, 530, 520, 510>>

\* math.exp(-math.log(2) * time_delta / half_life), both in seconds
DecayFactor(time_delta, half_life) ==
    LET e36 == (time_delta * 36) \div half_life
    IN  Pow2NegFrac[(e36 % 36) + 1] \div Pow2(e36 \div 36)

----------------------------------------------------------------------------
(* EmotionEngine                                                            *)

half_life_pleasure == 3600
half_life_arousal == 1800
half_life_dominance == 2700
half_life_dopamine == 300
half_life_cortisol == 600

MaxUpdates == 2
MaxClock == 7200

\* elapsed seconds between two update calls: none, 5 min, 1 h
ElapsedTimes == {0, 300, 3600}
\* stimulus deltas, in and out of [-1, 1]
StimulusValues == {-1500, 0, 400}

EngineInit ==
    [pleasure |-> 0, arousal |-> 0, dominance |-> 0,
     dopamine |-> 500, cortisol |-> 300, last_update_time |-> 0]

\* variant: the neurotransmitters decay toward 0 instead of their baselines
ApplyHalfLifeDecayTowardZero(e, time_delta) ==
    [e EXCEPT
        !.pleasure = Mul(e.pleasure, DecayFactor(time_delta, half_life_pleasure)),
        !.arousal = Mul(e.arousal, DecayFactor(time_delta, half_life_arousal)),
        !.dominance = Mul(e.dominance, DecayFactor(time_delta, half_life_dominance)),
        !.dopamine = Mul(e.dopamine, DecayFactor(time_delta, half_life_dopamine)),
        !.cortisol = Mul(e.cortisol, DecayFactor(time_delta, half_life_cortisol))]

ApplyHalfLifeDecay(e, time_delta) ==
    [e EXCEPT
        !.pleasure = Mul(e.pleasure, DecayFactor(time_delta, half_life_pleasure)),
        !.arousal = Mul(e.arousal, DecayFactor(time_delta, half_life_arousal)),
        !.dominance = Mul(e.dominance, DecayFactor(time_delta, half_life_dominance)),
        !.dopamine = 500 + Mul(e.dopamine - 500, DecayFactor(time_delta, half_life_dopamine)),
        !.cortisol = 300 + Mul(e.cortisol - 300, DecayFactor(time_delta, half_life_cortisol))]

UpdateNeurotransmitters(e) ==
    [e EXCEPT
        !.dopamine = e.dopamine + Mul(e.pleasure, 100),
        !.cortisol = e.cortisol + Mul(Abs(e.arousal), 100)]

ClampNoLower(lo, hi, v) == Min(hi, v)

Clamp(lo, hi, v) == Max(lo, Min(hi, v))

ClampValues(e) ==
    [e EXCEPT
        !.pleasure = Clamp(-Scale, Scale, e.pleasure),
        !.arousal = Clamp(-Scale, Scale, e.arousal),
        !.dominance = Clamp(-Scale, Scale, e.dominance),
        !.dopamine = Clamp(0, Scale, e.dopamine),
        !.cortisol = Clamp(0, Scale, e.cortisol)]

\* the engine after update(input_pleasure, input_arousal, input_dominance)
\* called at wall-clock time current_time
EngineUpdate(e, current_time, input_pleasure, input_arousal, input_dominance) ==
    LET time_delta == current_time - e.last_update_time
        decayed == ApplyHalfLifeDecay([e EXCEPT !.last_update_time = current_time],
                                      time_delta)
        stimulated == [decayed EXCEPT
                          !.pleasure = @ + input_pleasure,
                          !.arousal = @ + input_arousal,
                          !.dominance = @ + input_dominance]
    IN  ClampValues(UpdateNeurotransmitters(stimulated))

Update ==
    /\ updates < MaxUpdates
    /\ \E dt \in ElapsedTimes, ip \in StimulusValues,
          ia \in StimulusValues, id \in StimulusValues :
        /\ engine.last_update_time + dt <= MaxClock
        /\ engine' = EngineUpdate(engine, engine.last_update_time + dt, ip, ia, id)
        /\ lastStimulus' = [pleasure |-> ip, arousal |-> ia, dominance |-> id,
                            time_delta |-> dt]
    /\ updates' = updates + 1
    /\ UNCHANGED notAffect

AffectIdle ==
    /\ engine = EngineInit
    /\ updates = 0
    /\ lastStimulus = [pleasure |-> 0, arousal |-> 0, dominance |-> 0, time_delta |-> 0]

----------------------------------------------------------------------------
(* Python values                                                            *)

\* an optional dict entry: <<>> when the key is missing, <<x>> when present
Missing == <<>>
Present(x) == <<x>>
\* d.get(key, default)
Get(entry, default) == IF entry = Missing THEN default ELSE entry[1]

RECURSIVE SeqSum(_)
SeqSum(s) == IF s = <<>> THEN 0 ELSE Head(s) + SeqSum(Tail(s))

Reverse(s) == [i \in 1..Len(s) |-> s[Len(s) + 1 - i]]

\* a float that may be NaN
Num(x) == [nan |-> FALSE, v |-> x]
NaN == [nan |-> TRUE, v |-> 0]
\* a < b on floats: every comparison with NaN is False
FloatLt(a, b) == ~a.nan /\ ~b.nan /\ a.v < b.v
FloatMul(a, k) == IF a.nan THEN NaN ELSE Num(Mul(a.v, k))
FloatAdd(a, b) == IF a.nan \/ b.nan THEN NaN ELSE Num(a.v + b.v)

PySliceOneMore(s, limit) == SubSeq(s, 1, Min(limit + 1, Len(s)))

\* s[:limit]
PySlicePrefix(s, limit) ==
    LET n == IF limit >= 0 THEN Min(limit, Len(s)) ELSE Max(0, Len(s) + limit)
    IN  SubSeq(s, 1, n)

(* list.sort(key=..., reverse=True) on a list shorter than 64 items, as     *)
(* CPython does it: reverse, find the leading run, binary-insert the rest   *)
(* with "<" on the keys, reverse again.                                     *)
RECURSIVE RunLength(_, _, _)
RunLength(a, n, descending) ==
    IF n < Len(a) /\ (FloatLt(a[n + 1].score, a[n].score) <=> descending)
    THEN RunLength(a, n + 1, descending)
    ELSE n

RECURSIVE BinarySearch(_, _, _, _)
BinarySearch(a, pivot, l, r) ==
    IF l >= r THEN l
    ELSE LET p == l + ((r - l) \div 2)
         IN  IF FloatLt(pivot.score, a[p].score)
             THEN BinarySearch(a, pivot, l, p)
             ELSE BinarySearch(a, pivot, p + 1, r)

RECURSIVE BinarySort(_, _)
BinarySort(a, start) ==
    IF start > Len(a) THEN a
    ELSE LET pivot == a[start]
             l == BinarySearch(a, pivot, 1, start)
             moved == [i \in 1..Len(a) |->
                          IF i < l \/ i > start THEN a[i]
                          ELSE IF i = l THEN pivot ELSE a[i - 1]]
         IN  BinarySort(moved, start + 1)

ListSort(a) ==
    IF Len(a) < 2 THEN a
    ELSE LET descending == FloatLt(a[2].score, a[1].score)
             n == RunLength(a, 2, descending)
             run == IF descending
                    THEN [i \in 1..Len(a) |-> IF i <= n THEN a[n + 1 - i] ELSE a[i]]
                    ELSE a
         IN  BinarySort(run, n + 1)

SortReverse(a) == Reverse(ListSort(Reverse(a)))

----------------------------------------------------------------------------
(* Memory store: MockHippocampus and FileHippocampus                        *)

MaxStores == 3
MaxLimit == 2
MaxRestarts == 1
ClockStep == 12 * 3600
MaxStoreClock == 43200

RecencyHalfLife == 86400

ZeroPad == [pleasure |-> 0, arousal |-> 0, dominance |-> 0]

\* embeddings (Python lists of floats); the zero vector stands for empty text
Vectors == {<<3, 4>>, <<4, 3>>, <<0, 0>>}
PyList(items) == [type |-> "list", items |-> items]

\* the dicts handed to store_memory
StoreInputs ==
    { [vector |-> Present(PyList(<<3, 4>>)),
       pad |-> Present([pleasure |-> 600, arousal |-> -300, dominance |-> 0]),
       timestamp |-> Missing, user_info |-> [name |-> Present("Ann")]],
      [vector |-> Present(PyList(<<4, 3>>)),
       pad |-> Missing,
       timestamp |-> Missing, user_info |-> [name |-> Missing]],
      [vector |-> Present(PyList(<<0, 0>>)),
       pad |-> Missing,
       timestamp |-> Present(0), user_info |-> [name |-> Missing]],
      [vector |-> Missing,
       pad |-> Missing,
       timestamp |-> Missing, user_info |-> [name |-> Missing]] }

Norm(v) ==
    LET sq == SeqSum([i \in 1..Len(v) |-> v[i] * v[i]])
    IN  CHOOSE r \in 0..sq : r * r <= sq /\ (r + 1) * (r + 1) > sq

Dot(a, b) == SeqSum([i \in 1..Len(a) |-> a[i] * b[i]])

\* np.dot(q, m) / (np.linalg.norm(q) * np.linalg.norm(m)): 0/0 is nan
CosineSimilarity(query_vector, memory_vector) ==
    LET d == Dot(query_vector, memory_vector)
        n == Norm(query_vector) * Norm(memory_vector)
    IN  IF n = 0 THEN NaN
        ELSE Num(IF d >= 0 THEN (d * Scale) \div n ELSE -((-d * Scale) \div n))

ImportanceScore(memory, current_time) ==
    LET time_diff == current_time - memory.timestamp
        time_decay == DecayFactor(time_diff, RecencyHalfLife)
        emotional_intensity ==
            (Abs(memory.pad.pleasure) + Abs(memory.pad.arousal)
               + Abs(memory.pad.dominance)) \div 3
    IN  Mul(time_decay, 400) + Mul(emotional_intensity, 300)
          + (IF memory.user_info.name # Missing THEN 300 ELSE 0)

TotalScore(memory, query_vector, current_time) ==
    FloatAdd(FloatMul(CosineSimilarity(query_vector, memory.vector.items), 700),
             Num(Mul(ImportanceScore(memory, current_time), 300)))

MockScore(memory, query_vector) ==
    CosineSimilarity(query_vector, memory.vector.items)

\* the keys of the dicts retrieve_memories returns, in the order returned
RetrieveMemories(k, mems, query_vector, limit, current_time) ==
    LET scored == [i \in 1..Len(mems) |->
                      [score |-> IF k = "file"
                                 THEN TotalScore(mems[i].value, query_vector, current_time)
                                 ELSE MockScore(mems[i].value, query_vector),
                       key |-> mems[i].key]]
        sorted == SortReverse(scored)
    IN  [i \in 1..Len(PySlicePrefix(sorted, limit)) |-> sorted[i].key]

\* json.dump of {'memories': ..., 'next_id': ...}
JsonOfMemory(m) == [m EXCEPT !.vector = [type |-> "array", items |-> m.vector.items]]
JsonDumpDropsNextId(mems, nid) ==
    [memories |-> Present([i \in 1..Len(mems) |->
                              [key |-> mems[i].key, value |-> JsonOfMemory(mems[i].value)]]),
     next_id |-> Missing]

JsonDump(mems, nid) ==
    [memories |-> Present([i \in 1..Len(mems) |->
                              [key |-> mems[i].key, value |-> JsonOfMemory(mems[i].value)]]),
     next_id |-> Present(nid)]

\* json.load followed by data.get('memories', {}) and data.get('next_id', 0)
MemoryOfJson(j) == [j EXCEPT !.vector = [type |-> "list", items |-> j.vector.items]]

JsonLoadResetsNextId(data) ==
    LET ms == Get(data.memories, <<>>)
    IN  [memories |-> [i \in 1..Len(ms) |->
                          [key |-> ms[i].key, value |-> MemoryOfJson(ms[i].value)]],
         next_id |-> 0]

JsonLoad(data) ==
    LET ms == Get(data.memories, <<>>)
    IN  [memories |-> [i \in 1..Len(ms) |->
                          [key |-> ms[i].key, value |-> MemoryOfJson(ms[i].value)]],
         next_id |-> Get(data.next_id, 0)]

NoFile == [state |-> "absent", data |-> Missing]
CorruptFile == [state |-> "corrupt", data |-> Missing]
JsonFile(data) == [state |-> "json", data |-> Present(data)]

\* _save_to_file: "ok", or the open fails, or the write fails after the
\* file was truncated; the exception is logged, not raised
SaveToFile(f, mems, nid, outcome) ==
    CASE outcome = "ok" -> JsonFile(JsonDump(mems, nid))
      [] outcome = "open_failed" -> f
      [] outcome = "write_failed" -> CorruptFile

LoadFromFileKeepsCounter(f, outcome) ==
    IF f.state = "absent" THEN [memories |-> <<>>, next_id |-> 0]
    ELSE IF f.state = "json" /\ outcome = "ok" THEN JsonLoad(f.data[1])
    ELSE [memories |-> <<>>, next_id |-> 1]

\* __init__ and _load_from_file: the index and counter of a new instance
LoadFromFile(f, outcome) ==
    IF f.state = "absent" THEN [memories |-> <<>>, next_id |-> 0]
    ELSE IF f.state = "json" /\ outcome = "ok" THEN JsonLoad(f.data[1])
    ELSE [memories |-> <<>>, next_id |-> 0]

LoadFailed(f, outcome) == f.state = "corrupt" \/ (f.state = "json" /\ outcome # "ok")

\* the record store_memory keeps: missing pad and timestamp are filled in
FillDefaults(episodic_memory, current_time) ==
    [vector |-> episodic_memory.vector[1],
     pad |-> Get(episodic_memory.pad, ZeroPad),
     timestamp |-> Get(episodic_memory.timestamp, current_time),
     user_info |-> episodic_memory.user_info]

\* dict assignment self.memories[memory_id] = episodic_memory
DictSet(mems, k, v) ==
    IF \E i \in 1..Len(mems) : mems[i].key = k
    THEN [i \in 1..Len(mems) |-> IF mems[i].key = k THEN [key |-> k, value |-> v] ELSE mems[i]]
    ELSE Append(mems, [key |-> k, value |-> v])

\* store_memory(episodic_memory): the id is taken before the vector check
StoreMemoryCall(outcomes) ==
    /\ storeCalls < MaxStores
    /\ storeCalls' = storeCalls + 1
    /\ \E episodic_memory \in StoreInputs, outcome \in outcomes :
        LET memory_id == next_id
        IN  /\ next_id' = next_id + 1
            /\ IF episodic_memory.vector = Missing
               THEN /\ outcome = "ok"
                    /\ ret' = [op |-> "store", raised |-> TRUE, ok |-> TRUE, id |-> memory_id,
                               keys |-> <<>>, limit |-> 0, query |-> <<>>]
                    /\ UNCHANGED <<memories, file, issued, ioFailed>>
               ELSE LET filled == FillDefaults(episodic_memory, clock)
                        mems == DictSet(memories, memory_id, filled)
                    IN  /\ memories' = mems
                        /\ IF kind = "file"
                           THEN /\ file' = SaveToFile(file, mems, next_id + 1, outcome)
                                /\ ioFailed' = (ioFailed \/ outcome # "ok")
                           ELSE /\ outcome = "ok"
                                /\ UNCHANGED <<file, ioFailed>>
                        /\ issued' = Append(issued, [id |-> memory_id, value |-> filled])
                        /\ ret' = [op |-> "store", raised |-> FALSE,
                                   ok |-> (kind = "mock" \/ outcome = "ok"), id |-> memory_id,
                                   keys |-> <<>>, limit |-> 0, query |-> <<>>]
    /\ UNCHANGED <<kind, clock, restarts, notStore>>

\* a store_memory call whose file write may fail
StoreMemory == StoreMemoryCall({"ok", "open_failed", "write_failed"})

\* a store_memory call whose file write succeeds
StoreMemoryWritten == StoreMemoryCall({"ok"})

\* retrieve_memories(query_vector, limit)
Retrieve ==
    /\ \E query_vector \in Vectors, limit \in 0..MaxLimit :
        ret' = [op |-> "retrieve", raised |-> FALSE, ok |-> TRUE, id |-> 0,
                keys |-> IF memories = <<>> THEN <<>>
                         ELSE RetrieveMemories(kind, memories, query_vector, limit, clock),
                limit |-> limit, query |-> query_vector]
    /\ UNCHANGED <<kind, memories, next_id, file, clock, issued, ioFailed,
                   storeCalls, restarts, notStore>>

\* the process ends and a new FileHippocampus is constructed on the same path
Restart ==
    /\ kind = "file"
    /\ restarts < MaxRestarts
    /\ restarts' = restarts + 1
    /\ \E outcome \in {"ok", "read_failed"} :
        /\ outcome = "read_failed" => file.state = "json"
        /\ memories' = LoadFromFile(file, outcome).memories
        /\ next_id' = LoadFromFile(file, outcome).next_id
        /\ ioFailed' = (ioFailed \/ LoadFailed(file, outcome))
        /\ ret' = [op |-> "load", raised |-> FALSE, ok |-> ~LoadFailed(file, outcome), id |-> 0,
                   keys |-> <<>>, limit |-> 0, query |-> <<>>]
    /\ UNCHANGED <<kind, file, clock, issued, storeCalls, notStore>>

\* time passes
Tick ==
    /\ clock + ClockStep <= MaxStoreClock
    /\ clock' = clock + ClockStep
    /\ UNCHANGED <<kind, memories, next_id, file, ret, issued, ioFailed,
                   storeCalls, restarts, notStore>>

----------------------------------------------------------------------------
(* Concurrent turns: processes that each hold a FileHippocampus on the same *)
(* storage_path.  The code takes no lock, so a save is two steps for the    *)
(* other processes: open(path, 'w') truncates the file, json.dump fills it. *)

MaxProcs == 2
MaxTurns == 2

Procs == 1..MaxProcs

\* the record the turn of process p stores (LimbicFlowPipeline._store_interaction_memory)
TurnRecord(p, t) ==
    [vector |-> PyList(<<3, 4>>), pad |-> ZeroPad, timestamp |-> 10 * p + t,
     user_info |-> [name |-> Missing]]

\* FileHippocampus(): the process constructs its store and loads the file
ProcStart(p) ==
    /\ pc[p] = "down"
    /\ inst' = [inst EXCEPT ![p] = LoadFromFile(file, "ok")]
    /\ sawPartial' = (sawPartial \/ file.state = "corrupt")
    /\ pc' = [pc EXCEPT ![p] = "ready"]
    /\ UNCHANGED <<turns, storeVars, affectVars, chainVars, restVars>>

\* store_memory up to the open(storage_path, 'w') of _save_to_file
ProcStoreOpen(p) ==
    /\ pc[p] = "ready"
    /\ turns[p] < MaxTurns
    /\ LET memory_id == inst[p].next_id
       IN  inst' = [inst EXCEPT ![p] =
                       [memories |-> DictSet(inst[p].memories, memory_id,
                                             TurnRecord(p, turns[p] + 1)),
                        next_id |-> memory_id + 1]]
    /\ file' = CorruptFile
    /\ pc' = [pc EXCEPT ![p] = "writing"]
    /\ UNCHANGED <<turns, sawPartial, kind, memories, next_id, clock, ret, issued,
                   ioFailed, storeCalls, restarts, affectVars, chainVars, restVars>>

\* json.dump completes and store_memory returns the id
ProcStoreDump(p) ==
    /\ pc[p] = "writing"
    /\ file' = SaveToFile(file, inst[p].memories, inst[p].next_id, "ok")
    /\ issued' = Append(issued, [id |-> inst[p].next_id - 1,
                                 value |-> TurnRecord(p, turns[p] + 1)])
    /\ turns' = [turns EXCEPT ![p] = @ + 1]
    /\ pc' = [pc EXCEPT ![p] = "ready"]
    /\ UNCHANGED <<inst, sawPartial, kind, memories, next_id, clock, ret,
                   ioFailed, storeCalls, restarts, affectVars, chainVars, restVars>>

----------------------------------------------------------------------------
(* Pathology chains: PathologyMiddlewareManager (base.py) over PathologyBase *)
(* policies, and BasePathologyMiddleware (the pipeline's) over the policy   *)
(* classes of middleware/pathology/__init__.py.                             *)
(*                                                                          *)
(* Memories are Python dicts, so lists hold references: an address is an    *)
(* index into heap.mems, and a memory's "pad" is an index into heap.pads.   *)

MaxMemories == 3
base_severity == 300
alzheimer_severity == 500
OneDay == 86400
OneWeek == 604800

\* the turn's timestamp
ChainNow == 20 * OneDay

\* np.random.random(), at the two ends of [0, 1)
RandomDraws == {0, 999}

\* the i-th record held by the store: its pleasure and its age cycle
StoredPleasure(i) == <<600, -100, 500, 300>>[((i - 1) % 4) + 1]
StoredAge(i) == <<3600, 3 * OneDay, 10 * OneDay, 2 * OneDay>>[((i - 1) % 4) + 1]
StoredHeap(n) ==
    [mems |-> [i \in 1..n |-> [rid |-> i, pad |-> i, timestamp |-> ChainNow - StoredAge(i)]],
     pads |-> [i \in 1..n |-> [pleasure |-> StoredPleasure(i), arousal |-> 0,
                               dominance |-> 0]]]

\* the affect states a turn may run the chain under
EmotionalStates ==
    { [pleasure |-> 0, cortisol |-> 300, timestamp |-> ChainNow],
      [pleasure |-> -300, cortisol |-> 400, timestamp |-> ChainNow],
      [pleasure |-> 0, cortisol |-> 900, timestamp |-> ChainNow] }

\* the chains: registered policies in order.  "raises_should_apply" and
\* "raises_distort" are policies whose method of that name raises
PolicyLists ==
    { <<"depression", "alzheimer">>,
      <<"alzheimer", "depression">>,
      <<"alzheimer", "raises_distort", "depression">>,
      <<"raises_should_apply", "depression", "alzheimer">>,
      <<"depression", "raises_distort", "alzheimer">> }

\* the origins of the records in a list of references
Rids(h, list) == [k \in 1..Len(list) |-> h.mems[list[k]].rid]

ShallowCopyMemory(h, a) ==
    [h |-> [h EXCEPT !.mems = Append(@, h.mems[a])],
     addr |-> Len(h.mems) + 1]

\* mem_copy = memory.copy(); mem_copy["pad"] = memory["pad"].copy()
CopyMemory(h, a) ==
    [h |-> [mems |-> Append(h.mems, [h.mems[a] EXCEPT !.pad = Len(h.pads) + 1]),
            pads |-> Append(h.pads, h.pads[h.mems[a].pad])],
     addr |-> Len(h.mems) + 1]

\* copy.deepcopy(state.memories)
RECURSIVE DeepCopyList(_, _, _, _)
DeepCopyList(h, list, i, out) ==
    IF i > Len(list) THEN [h |-> h, out |-> out]
    ELSE LET c == CopyMemory(h, list[i])
         IN  DeepCopyList(c.h, list, i + 1, Append(out, c.addr))

DepressionShouldApplyInclusive(es) == es.cortisol >= 400 \/ es.pleasure <= -200

DepressionShouldApply(es) == es.cortisol > 400 \/ es.pleasure < -200

\* variant: the boost grows as cortisol falls below 0.4
DynamicSeverityInverted(base, es) ==
    LET cortisol_boost == Max(0, 400 - es.cortisol)
    IN  Min(Scale, base + cortisol_boost)

\* _calculate_dynamic_severity of a policy constructed with base_severity = base
DynamicSeverity(base, es) ==
    LET cortisol_boost == Max(0, es.cortisol - 400)
    IN  Min(Scale, base + cortisol_boost)

CalculateDynamicSeverity(es) == DynamicSeverity(base_severity, es)

ShouldApply(policy, es) ==
    IF policy = "depression" THEN DepressionShouldApply(es) ELSE TRUE

Raises(policy, method) == policy = "raises_" \o method

\* DepressionPathology.distort_memories: the loop from memory i on
RECURSIVE DepressionLoop(_, _, _, _, _, _)
DepressionLoop(h, mems, severity, draws, i, out) ==
    IF i > Len(mems) THEN [h |-> h, out |-> out]
    ELSE LET memory_pleasure == h.pads[h.mems[mems[i]].pad].pleasure
             c == CopyMemory(h, mems[i])
             p == c.h.mems[c.addr].pad
             scaled == [c.h EXCEPT !.pads[p].pleasure =
                                      Mul(@, Scale - Mul(800, severity))]
         IN  IF memory_pleasure > 200 /\ draws[i] < Mul(800, severity)
             THEN DepressionLoop(c.h, mems, severity, draws, i + 1, out)
             ELSE DepressionLoop(scaled, mems, severity, draws, i + 1,
                                 Append(out, c.addr))

\* variant: a record whose scaled pleasure is not positive is dropped too
DepressionDistortDropsSad(h, mems, es, draws) ==
    LET r == DepressionLoop(h, mems, CalculateDynamicSeverity(es), draws, 1, <<>>)
    IN  [r EXCEPT !.out = SelectSeq(@, LAMBDA a : r.h.pads[r.h.mems[a].pad].pleasure > 0)]

DepressionDistort(h, mems, es, draws) ==
    DepressionLoop(h, mems, CalculateDynamicSeverity(es), draws, 1, <<>>)

\* AlzheimerPathology.distort_memories: the loop from memory i on
RECURSIVE AlzheimerLoop(_, _, _, _, _, _)
AlzheimerLoop(h, mems, current_time, draws, i, out) ==
    IF i > Len(mems) THEN [h |-> h, out |-> out]
    ELSE LET time_diff == current_time - h.mems[mems[i]].timestamp
             dropped == IF time_diff < OneDay
                        THEN draws[i] < Mul(800, alzheimer_severity)
                        ELSE IF time_diff < OneWeek
                        THEN draws[i] < Mul(500, alzheimer_severity)
                        ELSE FALSE
         IN  AlzheimerLoop(h, mems, current_time, draws, i + 1,
                           IF dropped THEN out ELSE Append(out, mems[i]))

AlzheimerDistortPrepends(h, mems, es, draws) ==
    LET r == AlzheimerLoop(h, mems, es.timestamp, draws, 1, <<>>)
    IN  [r EXCEPT !.out = Reverse(@)]

\* variant: a record of exactly one week is dropped
AlzheimerDistortDropsAtOneWeek(h, mems, es, draws) ==
    LET r == AlzheimerLoop(h, mems, es.timestamp, draws, 1, <<>>)
    IN  [r EXCEPT !.out = SelectSeq(@, LAMBDA a :
                              es.timestamp - h.mems[a].timestamp # OneWeek)]

AlzheimerDistort(h, mems, es, draws) ==
    AlzheimerLoop(h, mems, es.timestamp, draws, 1, <<>>)

\* policy.distort_memories(mems, emotional_state) of a policy that returns
DistortMemories(policy, h, mems, es, draws) ==
    IF policy = "depression" THEN DepressionDistort(h, mems, es, draws)
    ELSE IF policy = "alzheimer" THEN AlzheimerDistort(h, mems, es, draws)
    ELSE [h |-> h, out |-> mems]

\* one entry of the trace: what policy number i did
TraceEntry(i, policy, h0, before, called, h1, input, after, raised, cloned) ==
    [index |-> i, policy |-> policy, called |-> called, raised |-> raised,
     cloned |-> cloned, before |-> Rids(h0, before), input |-> Rids(h1, input),
     after |-> Rids(h1, after)]

(* PathologyBase.apply inside the try of PathologyMiddlewareManager.process: *)
(* acc holds the heap, state.distorted_memories, the trace so far.          *)
ManagerApply(acc, i, policy, mems, es, draws) ==
    IF Raises(policy, "should_apply")
    THEN [acc EXCEPT !.trace = Append(@, TraceEntry(i, policy, acc.h, acc.distorted,
                                  FALSE, acc.h, <<>>, acc.distorted, TRUE, FALSE))]
    ELSE IF ~ShouldApply(policy, es)
    THEN [acc EXCEPT !.trace = Append(@, TraceEntry(i, policy, acc.h, acc.distorted,
                                  FALSE, acc.h, <<>>, acc.distorted, FALSE, FALSE))]
    ELSE LET reclone == acc.distorted = <<>> /\ mems # <<>>
             c == IF reclone THEN DeepCopyList(acc.h, mems, 1, <<>>)
                  ELSE [h |-> acc.h, out |-> acc.distorted]
         IN  IF c.out = <<>>
             THEN [acc EXCEPT !.trace = Append(@, TraceEntry(i, policy, acc.h,
                                  acc.distorted, FALSE, c.h, <<>>, c.out, FALSE, reclone))]
             ELSE IF Raises(policy, "distort")
             THEN [h |-> c.h, distorted |-> c.out,
                   trace |-> Append(acc.trace, TraceEntry(i, policy, acc.h,
                                  acc.distorted, TRUE, c.h, c.out, c.out, TRUE, reclone)),
                   raised |-> FALSE]
             ELSE LET r == DistortMemories(policy, c.h, c.out, es, draws)
                  IN  [h |-> r.h, distorted |-> r.out,
                       trace |-> Append(acc.trace, TraceEntry(i, policy, acc.h,
                                  acc.distorted, TRUE, r.h, c.out, r.out, FALSE, reclone)),
                       raised |-> FALSE]

RECURSIVE ManagerLoop(_, _, _, _, _, _)
ManagerLoop(acc, pathologies, i, mems, es, tape) ==
    IF i > Len(pathologies) THEN acc
    ELSE ManagerLoop(ManagerApply(acc, i, pathologies[i], mems, es, tape[i]),
                     pathologies, i + 1, mems, es, tape)

\* PathologyMiddlewareManager.process(state)
ManagerProcess(h, state, pathologies, tape) ==
    LET first == state.distorted_memories = <<>> /\ state.memories # <<>>
        c == IF first THEN DeepCopyList(h, state.memories, 1, <<>>)
             ELSE [h |-> h, out |-> state.distorted_memories]
        start == [h |-> c.h, distorted |-> c.out, raised |-> FALSE,
                  trace |-> <<TraceEntry(0, "process", h, state.distorted_memories,
                                         FALSE, c.h, <<>>, c.out, FALSE, first)>>]
    IN  ManagerLoop(start, pathologies, 1, state.memories, state.emotional_state, tape)

(* BasePathologyMiddleware.distort_memories: no try, so a raising policy    *)
(* ends the loop and the exception leaves the method.                       *)
RECURSIVE BaseLoop(_, _, _, _, _)
BaseLoop(acc, pathologies, i, es, tape) ==
    IF i > Len(pathologies) \/ acc.raised THEN acc
    ELSE LET policy == pathologies[i]
             next ==
               IF Raises(policy, "should_apply")
               THEN [acc EXCEPT !.raised = TRUE,
                        !.trace = Append(@, TraceEntry(i, policy, acc.h, acc.distorted,
                                  FALSE, acc.h, <<>>, acc.distorted, TRUE, FALSE))]
               ELSE IF ~ShouldApply(policy, es)
               THEN [acc EXCEPT !.trace = Append(@, TraceEntry(i, policy, acc.h,
                                  acc.distorted, FALSE, acc.h, <<>>, acc.distorted,
                                  FALSE, FALSE))]
               ELSE IF Raises(policy, "distort")
               THEN [acc EXCEPT !.raised = TRUE,
                        !.trace = Append(@, TraceEntry(i, policy, acc.h, acc.distorted,
                                  TRUE, acc.h, acc.distorted, acc.distorted, TRUE, FALSE))]
               ELSE LET r == DistortMemories(policy, acc.h, acc.distorted, es, tape[i])
                    IN  [h |-> r.h, distorted |-> r.out, raised |-> FALSE,
                         trace |-> Append(acc.trace, TraceEntry(i, policy, acc.h,
                                  acc.distorted, TRUE, r.h, acc.distorted, r.out,
                                  FALSE, FALSE))]
         IN  BaseLoop(next, pathologies, i + 1, es, tape)

BaseDistortMemories(h, state, pathologies, tape) ==
    BaseLoop([h |-> h, distorted |-> state.memories, raised |-> FALSE, trace |-> <<>>],
             pathologies, 1, state.emotional_state, tape)

\* the turn retrieves: the list holds the store's own dicts
ChainRetrieve ==
    /\ phase = "built"
    /\ \E n \in 0..MaxMemories :
        /\ heap' = StoredHeap(n)
        /\ cog' = [cog EXCEPT !.memories = [i \in 1..n |-> i]]
    /\ phase' = "retrieved"
    /\ UNCHANGED <<chain, trace, affectVars, storeVars, concVars, restVars>>

\* the chain runs over the retrieved memories
ChainProcess ==
    /\ phase = "retrieved"
    /\ \E tape \in [1..Len(chain.pathologies) -> [1..Len(cog.memories) -> RandomDraws]] :
        LET r == IF chain.kind = "manager"
                 THEN ManagerProcess(heap, cog, chain.pathologies, tape)
                 ELSE BaseDistortMemories(heap, cog, chain.pathologies, tape)
        IN  /\ heap' = r.h
            /\ trace' = r.trace
            /\ phase' = IF r.raised THEN "raised" ELSE "returned"
            /\ cog' = IF r.raised THEN cog
                      ELSE [cog EXCEPT !.distorted_memories = r.distorted]
    /\ UNCHANGED <<chain, affectVars, storeVars, concVars, restVars>>

----------------------------------------------------------------------------
(* The depression policy asked on its own: should_apply and the severity    *)
(* it computes, for policies built with different base severities.          *)

BaseSeverities == {100, 300, 800}
PolicyPleasures == {-1000, -300, -201, -200, -199, 0, 600}
PolicyCortisols == {0, 300, 399, 400, 401, 700, 1000}

\* policy.should_apply(emotional_state); policy._calculate_dynamic_severity(...)
PolicyAsk ==
    /\ ~pol.asked
    /\ pol' = [pol EXCEPT !.asked = TRUE,
                          !.should_apply = DepressionShouldApply(pol.emotional_state),
                          !.severity = DynamicSeverity(pol.base_severity,
                                                       pol.emotional_state)]
    /\ UNCHANGED <<dis, affectVars, storeVars, concVars, chainVars, articVars, turnVars>>

----------------------------------------------------------------------------
(* One policy's distort_memories called on its own, over lists of records   *)
(* at the edges of its tests: pleasure at and next to 0.2, ages at and next *)
(* to one day and one week.                                                 *)

MaxDistorted == 2

\* np.random.random(): below every drop probability, between 0.5 * severity
\* and 0.8 * severity of the policies built here, above every one
DistortDraws == {0, 300, 999}

DistortRecords ==
    { [pleasure |-> 600, age |-> 3600],
      [pleasure |-> 200, age |-> OneDay - 1],
      [pleasure |-> 201, age |-> OneDay],
      [pleasure |-> -100, age |-> OneWeek - 1],
      [pleasure |-> 500, age |-> OneWeek],
      [pleasure |-> 300, age |-> 10 * OneDay] }

\* the dicts of a list of records: record i at address i, its pad at i
RecordsHeap(recs) ==
    [mems |-> [i \in 1..Len(recs) |->
                  [rid |-> i, pad |-> i, timestamp |-> ChainNow - recs[i].age]],
     pads |-> [i \in 1..Len(recs) |->
                  [pleasure |-> recs[i].pleasure, arousal |-> 250, dominance |-> -250]]]

\* policy.should_apply(emotional_state); policy.distort_memories(memories, ...)
PolicyDistort ==
    /\ ~dis.done
    /\ LET r == DistortMemories(dis.policy, dis.heap, dis.memories,
                                dis.emotional_state, dis.draws)
       IN  dis' = [dis EXCEPT !.done = TRUE,
                              !.should_apply = ShouldApply(dis.policy, dis.emotional_state),
                              !.after = r.h,
                              !.out = r.out]
    /\ UNCHANGED <<pol, affectVars, storeVars, concVars, chainVars, articVars, turnVars>>

----------------------------------------------------------------------------
(* MotorCortex: segmentation of the reply text and the action stream.       *)
(* A text is a sequence of characters.  "." "!" "?" stand for the three     *)
(* full-width sentence-terminal marks U+3002, U+FF01, U+FF1F of the source, *)
(* " " for whitespace.  Durations are in milliseconds.                      *)

MaxWords == 5
base_wpm == 60
min_segment_length == 10
hesitation_base == 500

SentenceMarks == {".", "!", "?"}
MarksString == <<".", "!", "?">>
Whitespace == {" "}

\* the pieces texts are put together from
Words == { <<"a", "b", "c", "d">>, <<" ">>, <<".">>, <<"?">> }

RECURSIVE Concat(_)
Concat(ss) == IF ss = <<>> THEN <<>> ELSE Head(ss) \o Concat(Tail(ss))

Texts == {Concat(ws) : ws \in UNION {[1..n -> Words] : n \in 0..MaxWords}}

\* the pad_state dicts articulate is called with; the chat tool passes
\* pleasure, arousal and dominance only
PadStates ==
    { [pleasure |-> 0, arousal |-> 0, dominance |-> 0,
       dopamine |-> Present(500), cortisol |-> Present(300)],
      [pleasure |-> -200, arousal |-> 600, dominance |-> -400,
       dopamine |-> Present(800), cortisol |-> Present(700)],
      [pleasure |-> 600, arousal |-> 0, dominance |-> 0,
       dopamine |-> Present(900), cortisol |-> Present(701)],
      [pleasure |-> 600, arousal |-> 600, dominance |-> 0,
       dopamine |-> Missing, cortisol |-> Missing],
      [pleasure |-> 0, arousal |-> 1000, dominance |-> 0,
       dopamine |-> Present(1000), cortisol |-> Present(0)],
      [pleasure |-> 0, arousal |-> -1000, dominance |-> 0,
       dopamine |-> Present(0), cortisol |-> Present(0)] }

\* the spec's scenario: a text of two characters, U+3002, five characters,
\* U+FF01, under pleasure 0.6, arousal 0.6, dominance 0, dopamine 0.5,
\* cortisol 0.2
ScenarioText == <<"n", "h", ".", "j", "t", "h", "k", "x", "!">>
ScenarioPad ==
    [pleasure |-> 600, arousal |-> 600, dominance |-> 0,
     dopamine |-> Present(500), cortisol |-> Present(200)]

\* random.uniform(0.9, 1.1) and random.uniform(1.0, 3.0), at their ends
NoiseFactors == {900, 1100}
StressPauses == {1000, 3000}

\* bool(s.strip())
StripTruthy(s) == \E i \in 1..Len(s) : s[i] \notin Whitespace

\* s.strip()
Strip(s) ==
    IF ~StripTruthy(s) THEN <<>>
    ELSE LET first == CHOOSE i \in 1..Len(s) :
                          s[i] \notin Whitespace /\ \A j \in 1..(i - 1) : s[j] \in Whitespace
             last == CHOOSE i \in 1..Len(s) :
                          s[i] \notin Whitespace /\ \A j \in (i + 1)..Len(s) : s[j] \in Whitespace
         IN  SubSeq(s, first, last)

\* re.split(r'([...])', text): the pieces between marks and the marks themselves
RECURSIVE ReSplit(_, _, _, _)
ReSplit(text, i, piece, out) ==
    IF i > Len(text) THEN Append(out, piece)
    ELSE IF text[i] \in SentenceMarks
         THEN ReSplit(text, i + 1, <<>>, Append(Append(out, piece), <<text[i]>>))
         ELSE ReSplit(text, i + 1, Append(piece, text[i]), out)

\* segment in "...": the substring test of Python's in
InString(segment, string) ==
    \E i \in 1..(Len(string) + 1) :
        /\ i + Len(segment) - 1 <= Len(string)
        /\ \A k \in 1..Len(segment) : string[i + k - 1] = segment[k]

\* variant: burst mode from dopamine 0.8 on
SegmentMultiplierInclusive(pad_state) ==
    LET arousal == pad_state.arousal
        dominance == pad_state.dominance
        dopamine == Get(pad_state.dopamine, 0)
        hesitant == IF arousal > 500 /\ dominance < -300 THEN 800 ELSE Scale
    IN  IF dopamine >= 800 THEN 500 ELSE hesitant

\* segment_multiplier, in thousandths
SegmentMultiplier(pad_state) ==
    LET arousal == pad_state.arousal
        dominance == pad_state.dominance
        dopamine == Get(pad_state.dopamine, 0)
        hesitant == IF arousal > 500 /\ dominance < -300 THEN 800 ELSE Scale
    IN  IF dopamine > 800 THEN 500 ELSE hesitant

\* the for loop of _segment_text from segment i on
RECURSIVE SegmentLoop(_, _, _, _, _)
SegmentLoop(segments, i, current_buffer, bubbles, segment_multiplier) ==
    IF i > Len(segments)
    THEN [current_buffer |-> current_buffer, bubbles |-> bubbles]
    ELSE LET buffer == current_buffer \o segments[i]
             flush == /\ InString(segments[i], MarksString)
                      /\ Len(buffer) * Scale >= min_segment_length * segment_multiplier
         IN  IF flush
             THEN SegmentLoop(segments, i + 1, <<>>, Append(bubbles, buffer),
                              segment_multiplier)
             ELSE SegmentLoop(segments, i + 1, buffer, bubbles, segment_multiplier)

SegmentTextDropsRest(text, pad_state) ==
    LET segments == SelectSeq(ReSplit(text, 1, <<>>, <<>>), StripTruthy)
    IN  SegmentLoop(segments, 1, <<>>, <<>>, SegmentMultiplier(pad_state)).bubbles

\* _segment_text(text, pad_state)
SegmentText(text, pad_state) ==
    LET segments == SelectSeq(ReSplit(text, 1, <<>>, <<>>), StripTruthy)
        looped == SegmentLoop(segments, 1, <<>>, <<>>, SegmentMultiplier(pad_state))
        rest == IF StripTruthy(looped.current_buffer)
                THEN Append(looped.bubbles, looped.current_buffer)
                ELSE looped.bubbles
    IN  IF rest = <<>> /\ StripTruthy(text) THEN <<Strip(text)>> ELSE rest

\* variant: no dopamine boost
SpeedModifierNoBoost(pad_state) ==
    LET linear == Scale + Mul(pad_state.arousal, 500)
    IN  Max(500, Min(2000, linear))

\* _calculate_typing_delay(text_length, pad_state), with the noise factor drawn
SpeedModifier(pad_state) ==
    LET linear == Scale + Mul(pad_state.arousal, 500)
        boosted == IF Get(pad_state.dopamine, 0) > 800 THEN Mul(linear, 1300) ELSE linear
    IN  Max(500, Min(2000, boosted))

CalculateTypingDelay(text_length, pad_state, noise_factor) ==
    LET base_delay == (text_length * Scale * Scale * 60)
                         \div (base_wpm * SpeedModifier(pad_state) * 5)
    IN  Mul(base_delay, noise_factor)

\* _calculate_hesitation(dominance, arousal)
CalculateHesitation(dominance, arousal) ==
    LET dominance_factor == Scale - Mul(dominance, 500)
        arousal_factor == Scale - Mul(arousal, 300)
        hesitation == Mul(Mul(hesitation_base, dominance_factor), arousal_factor)
    IN  Max(100, Min(3000, hesitation))

\* ActionEvent.create_typing / create_wait / create_message
CreateTyping(duration, index) ==
    [action_type |-> "typing", content |-> <<>>, duration |-> duration,
     segment_index |-> Present(index), reason |-> Missing]
CreateWait(duration, index, reason) ==
    [action_type |-> "wait", content |-> <<>>, duration |-> duration,
     segment_index |-> index, reason |-> reason]
CreateMessage(content, index) ==
    [action_type |-> "message", content |-> content, duration |-> 0,
     segment_index |-> Present(index), reason |-> Missing]

StressPauseInclusive(cortisol) == cortisol >= 700

\* if cortisol > 0.7
StressPause(cortisol) == cortisol > 700

\* the for loop of articulate from segment number i (counted from 1) on
RECURSIVE ArticulateLoop(_, _, _, _, _, _)
ArticulateLoop(segments, pad_state, noise, stress, i, actions) ==
    IF i > Len(segments) THEN actions
    ELSE LET typing_duration == CalculateTypingDelay(Len(segments[i]), pad_state, noise[i])
             hesitation_duration ==
                 CalculateHesitation(pad_state.dominance, pad_state.arousal)
             typed == Append(actions, CreateTyping(typing_duration, i - 1))
             paused == IF StressPause(Get(pad_state.cortisol, 0))
                       THEN Append(typed, CreateWait(stress[i], Missing,
                                                     Present("cortisol_hesitation")))
                       ELSE typed
             sent == Append(paused, CreateMessage(segments[i], i - 1))
             waited == IF i - 1 < Len(segments) - 1
                       THEN Append(sent, CreateWait(hesitation_duration,
                                                    Present(i - 1), Missing))
                       ELSE sent
         IN  ArticulateLoop(segments, pad_state, noise, stress, i + 1, waited)

\* articulate(full_response_text, pad_state)
Articulate ==
    /\ ~artic.done
    /\ LET segments == SegmentText(artic.text, artic.pad_state)
       IN  \E noise \in [1..Len(segments) -> NoiseFactors],
              stress \in [1..Len(segments) -> StressPauses] :
               artic' = [artic EXCEPT
                   !.done = TRUE,
                   !.actions = ArticulateLoop(segments, artic.pad_state, noise, stress,
                                              1, <<>>)]
    /\ UNCHANGED <<affectVars, storeVars, concVars, chainVars, policyVars, turnVars>>

----------------------------------------------------------------------------
(* A turn: LimbicFlowPipeline.process_input, the calls of the chat tool     *)
(* around it, and MotorCortex.process turning the reply into actions.       *)
(* Reply texts are character sequences as above, one letter per character   *)
(* of the source's phrases; "," stands for the full-width comma U+FF0C.     *)

MaxInputs == 2
TurnElapsed == {0, 300}

\* user inputs with what _perception_node and the chat tool's
\* _analyze_user_emotion read off them: embedding, keyword deltas, name
UserInputs ==
    { [text |-> "hello", vector |-> <<3, 4>>,
       initial_pad |-> [pleasure |-> 300, arousal |-> 0, dominance |-> 0],
       tool_pad |-> [pleasure |-> 0, arousal |-> 0, dominance |-> 0],
       name |-> Missing],
      [text |-> "", vector |-> <<0, 0>>,
       initial_pad |-> [pleasure |-> 0, arousal |-> 0, dominance |-> 0],
       tool_pad |-> [pleasure |-> 0, arousal |-> 0, dominance |-> 0],
       name |-> Missing],
      [text |-> "I'm Ann. sad wow", vector |-> <<4, 3>>,
       initial_pad |-> [pleasure |-> -300, arousal |-> 300, dominance |-> 0],
       tool_pad |-> [pleasure |-> -200, arousal |-> 100, dominance |-> 0],
       name |-> Present(<<"A", "n", "n">>)] }

\* what self.llm.chat_simple does: it raises, or returns this content
ReplyTexts ==
    { <<>>, <<" ">>,
      <<"a", "b", "c", "d", ".", " ", "a", "b", "c", "d", "?">> }
LlmOutcomes == {[failed |-> TRUE, content |-> <<>>]}
                 \cup {[failed |-> FALSE, content |-> t] : t \in ReplyTexts}

\* the five base responses of _fallback_expression
PhraseHappy ==
    <<"w", "x", "z", "g", "j", "h", "k", "x", "!",
      "y", "s", "m", "w", "k", "y", "b", "m", "d", "m", "?">>
PhraseSad ==
    <<"w", "x", "z", "y", "d", "j", "s", ".", "n", "y", "s", "m", "x", "l", "d", "m", "?">>
PhraseEnergetic ==
    <<"w", "x", "z", "g", "j", "j", "l", "c", "p", "!", "n", "z", "x", "s", "m", "?">>
PhraseStressed ==
    <<"w", "x", "z", "g", "j", "y", "l", "h", "d", ".",
      "r", "w", "m", "l", "j", "y", "x", ".">>
PhraseHere == <<"w", "z", "z", "l", ".", "n", "x", "t", "l", "s", "m", "?">>

\* _fallback_expression(emotional_state), with self.user_info
FallbackExpression(emotional_state, user_info) ==
    LET base_response ==
            IF emotional_state.pleasure > 300 THEN PhraseHappy
            ELSE IF emotional_state.pleasure < -300 THEN PhraseSad
            ELSE IF emotional_state.arousal > 300 THEN PhraseEnergetic
            ELSE IF emotional_state.cortisol > 700 THEN PhraseStressed
            ELSE PhraseHere
    IN  IF user_info.name # Missing
        THEN user_info.name[1] \o <<",">> \o base_response
        ELSE base_response

ExpressionPropagates(llm, emotional_state, user_info) ==
    IF llm.failed THEN [raised |-> TRUE, content |-> <<>>]
    ELSE [raised |-> FALSE, content |-> llm.content]

\* _expression: the call of the language model inside try/except
Expression(llm, emotional_state, user_info) ==
    IF llm.failed
    THEN [raised |-> FALSE, content |-> FallbackExpression(emotional_state, user_info)]
    ELSE [raised |-> FALSE, content |-> llm.content]

\* EmotionEngine.get_state()
GetState(e) ==
    [pleasure |-> e.pleasure, arousal |-> e.arousal, dominance |-> e.dominance,
     dopamine |-> e.dopamine, cortisol |-> e.cortisol, timestamp |-> e.last_update_time]

\* the row Amygdala.log_state inserts into state_log
StateLogRow(emotional_state, input) ==
    [timestamp |-> emotional_state.timestamp, pleasure |-> emotional_state.pleasure,
     arousal |-> emotional_state.arousal, dominance |-> emotional_state.dominance,
     dopamine |-> emotional_state.dopamine, cortisol |-> emotional_state.cortisol,
     context |-> [user_input |-> input.text, context |-> Missing]]

\* the dict _store_interaction_memory builds
InteractionMemory(input, response, emotional_state, user_info, now) ==
    [vector |-> PyList(input.vector),
     pad |-> [pleasure |-> emotional_state.pleasure, arousal |-> emotional_state.arousal,
              dominance |-> emotional_state.dominance],
     timestamp |-> now,
     user_input |-> input.text,
     system_response |-> response,
     emotional_state |-> emotional_state,
     user_info |-> user_info]

\* np.random.normal(0, 0.2 * severity, size=query_vector.shape), in the
\* hundredths the turn's embeddings are counted in
QueryNoises == {<<0, 0>>, <<10, -10>>}

\* query_vector + np.full_like(query_vector, -0.1 * severity): a new array
DepressionDistortQuery(arrays, a, es) ==
    LET distortion == -(Mul(100, CalculateDynamicSeverity(es)) \div 10)
    IN  [arrays |-> Append(arrays, [i \in 1..Len(arrays[a]) |-> arrays[a][i] + distortion]),
         addr |-> Len(arrays) + 1]

\* query_vector + noise: a new array
AlzheimerDistortQuery(arrays, a, noise) ==
    [arrays |-> Append(arrays, [i \in 1..Len(arrays[a]) |-> arrays[a][i] + noise[i]]),
     addr |-> Len(arrays) + 1]

\* variant: no copy is taken and the distorted values are written into the
\* array passed in
BaseDistortQueryInPlace(arrays, q, es, noise) ==
    LET d == IF DepressionShouldApply(es)
             THEN DepressionDistortQuery(arrays, q, es)
             ELSE [arrays |-> arrays, addr |-> q]
        z == AlzheimerDistortQuery(d.arrays, d.addr, noise)
    IN  [arrays |-> [arrays EXCEPT ![q] = z.arrays[z.addr]], addr |-> q]

\* BasePathologyMiddleware.distort_query of the pipeline's chain (depression,
\* then alzheimer): arrays holds the ndarray objects, q is the address of
\* query_vector, the result is the address of distorted_vector
BaseDistortQuery(arrays, q, es, noise) ==
    LET copied == [arrays |-> Append(arrays, arrays[q]), addr |-> Len(arrays) + 1]
        d == IF DepressionShouldApply(es)
             THEN DepressionDistortQuery(copied.arrays, copied.addr, es)
             ELSE copied
    IN  AlzheimerDistortQuery(d.arrays, d.addr, noise)

\* variant: the record is not put into the index
StoreInteractionMemoryDropped(mems, memory_id, memory) == mems

\* self.hippocampus.store_memory(memory) in _store_interaction_memory: the index
StoreInteractionMemory(mems, memory_id, memory) == DictSet(mems, memory_id, memory)

Stages == <<"perception", "chemistry", "retrieval", "reconstruction", "expression",
            "store">>

\* LimbicFlowPipeline.process_input(user_input): the six stages in order;
\* an exception of a stage that is not caught inside it ends the call
ProcessInput ==
    /\ turn.calls < MaxInputs
    /\ kind = "file"
    /\ \E input \in UserInputs, dt \in TurnElapsed, logged \in BOOLEAN,
          llm \in LlmOutcomes, outcome \in {"ok", "open_failed", "write_failed"},
          noise \in QueryNoises :
        LET now == clock + dt
            user_info == IF input.name # Missing THEN [name |-> input.name]
                         ELSE turn.user_info
            updated == EngineUpdate(engine, now, input.initial_pad.pleasure,
                                    input.initial_pad.arousal, input.initial_pad.dominance)
            emotional_state == GetState(updated)
            perceived == <<input.vector>>
            distorted == BaseDistortQuery(perceived, 1, emotional_state, noise)
            retrieved == IF memories = <<>> THEN <<>>
                         ELSE RetrieveMemories("file", memories,
                                               distorted.arrays[distorted.addr], 5, now)
            expressed == Expression(llm, emotional_state, user_info)
            memory == InteractionMemory([input EXCEPT !.vector = distorted.arrays[1]],
                                        expressed.content, emotional_state,
                                        user_info, now)
            mems == StoreInteractionMemory(memories, next_id, memory)
            begun == [turn EXCEPT !.calls = @ + 1, !.user_info = user_info,
                                  !.update_calls = @ + 1, !.actions = Missing,
                                  !.input = input.text, !.vector = input.vector,
                                  !.emotional_state = Present(emotional_state)]
        IN  /\ clock' = now
            /\ engine' = updated
            /\ updates' = updates + 1
            /\ lastStimulus' = [pleasure |-> input.initial_pad.pleasure,
                                arousal |-> input.initial_pad.arousal,
                                dominance |-> input.initial_pad.dominance,
                                time_delta |-> now - engine.last_update_time]
            /\ IF ~logged
               THEN \* log_state raised inside _chemistry_solver
                    /\ llm.failed /\ outcome = "ok" /\ noise = <<0, 0>>
                    /\ turn' = [begun EXCEPT !.status = "raised", !.log_failed = TRUE,
                                             !.llm_failed = FALSE,
                                             !.arrays = perceived,
                                             !.distorted_query = Missing,
                                             !.retrieved = <<>>,
                                             !.steps = SubSeq(Stages, 1, 1),
                                             !.response = Missing, !.stored = Missing]
                    /\ UNCHANGED <<memories, next_id, file, ret, issued, ioFailed,
                                   storeCalls>>
               ELSE IF expressed.raised
               THEN /\ outcome = "ok"
                    /\ turn' = [begun EXCEPT !.status = "raised", !.log_failed = FALSE,
                                             !.llm_failed = TRUE,
                                             !.arrays = distorted.arrays,
                                             !.distorted_query = Present(distorted.addr),
                                             !.retrieved = retrieved,
                                             !.history = Append(@, StateLogRow(emotional_state, input)),
                                             !.steps = SubSeq(Stages, 1, 4),
                                             !.response = Missing, !.stored = Missing]
                    /\ UNCHANGED <<memories, next_id, file, ret, issued, ioFailed,
                                   storeCalls>>
               ELSE /\ turn' = [begun EXCEPT !.status = "returned", !.log_failed = FALSE,
                                             !.llm_failed = llm.failed,
                                             !.arrays = distorted.arrays,
                                             !.distorted_query = Present(distorted.addr),
                                             !.retrieved = retrieved,
                                             !.history = Append(@, StateLogRow(emotional_state, input)),
                                             !.steps = Stages,
                                             !.response = Present(expressed.content),
                                             !.stored = Present(next_id)]
                    /\ memories' = mems
                    /\ next_id' = next_id + 1
                    /\ file' = SaveToFile(file, mems, next_id + 1, outcome)
                    /\ ioFailed' = (ioFailed \/ outcome # "ok")
                    /\ issued' = Append(issued, [id |-> next_id, value |-> memory])
                    /\ storeCalls' = storeCalls + 1
                    /\ ret' = [op |-> "store", raised |-> FALSE, ok |-> (outcome = "ok"),
                               id |-> next_id, keys |-> <<>>, limit |-> 0, query |-> <<>>]
    /\ UNCHANGED <<kind, restarts, concVars, chainVars, policyVars, articVars>>

\* EmotionChatTool.process_input(user_input): it updates its own engine and
\* calls pipeline.process_input(user_input, streaming=False), a keyword the
\* pipeline's method does not take; the TypeError is caught and printed
ChatToolProcessInput ==
    /\ turn.calls < MaxInputs
    /\ \E input \in UserInputs, dt \in TurnElapsed :
        LET now == clock + dt
        IN  /\ clock' = now
            /\ turn' = [turn EXCEPT
                   !.calls = @ + 1,
                   !.update_calls = @ + 1,
                   !.tool_engine = EngineUpdate(@, now, input.tool_pad.pleasure,
                                                input.tool_pad.arousal,
                                                input.tool_pad.dominance),
                   !.conversation_history = Append(@, [role |-> "user",
                                                       content |-> input.text]),
                   !.status = "caught", !.steps = <<>>, !.log_failed = FALSE,
                   !.llm_failed = FALSE, !.input = input.text, !.vector = input.vector,
                   !.emotional_state = Missing, !.response = Missing,
                   !.arrays = <<>>, !.distorted_query = Missing, !.retrieved = <<>>,
                   !.stored = Missing, !.actions = Present(<<>>)]
    /\ UNCHANGED <<affectVars, kind, memories, next_id, file, ret, issued, ioFailed,
                   storeCalls, restarts, concVars, chainVars, policyVars, articVars>>

\* MotorCortex.process(state): the reply text becomes the action queue
MotorCortexProcess ==
    /\ turn.status = "returned"
    /\ turn.actions = Missing
    /\ LET es == turn.emotional_state[1]
           pad_state == [pleasure |-> es.pleasure, arousal |-> es.arousal,
                         dominance |-> es.dominance, dopamine |-> Present(es.dopamine),
                         cortisol |-> Present(es.cortisol)]
           segments == SegmentText(turn.response[1], pad_state)
       IN  \E noise \in [1..Len(segments) -> NoiseFactors],
              stress \in [1..Len(segments) -> StressPauses] :
               turn' = [turn EXCEPT !.actions =
                   Present(ArticulateLoop(segments, pad_state, noise, stress, 1, <<>>))]
    /\ UNCHANGED <<affectVars, storeVars, concVars, chainVars, policyVars, articVars>>

----------------------------------------------------------------------------
(* Specifications                                                           *)

StoreIdle ==
    /\ kind = "file"
    /\ memories = <<>>
    /\ next_id = 0
    /\ file = NoFile
    /\ clock = 0
    /\ ret = [op |-> "none", raised |-> FALSE, ok |-> TRUE, id |-> 0,
              keys |-> <<>>, limit |-> 0, query |-> <<>>]
    /\ issued = <<>>
    /\ ioFailed = FALSE
    /\ storeCalls = 0
    /\ restarts = 0

ChainIdle ==
    /\ chain = <<>>
    /\ heap = <<>>
    /\ cog = <<>>
    /\ trace = <<>>
    /\ phase = "built"

ConcIdle ==
    /\ inst = [p \in Procs |-> [memories |-> <<>>, next_id |-> 0]]
    /\ pc = [p \in Procs |-> "down"]
    /\ turns = [p \in Procs |-> 0]
    /\ sawPartial = FALSE

DistortIdle == dis = <<>>
PolicyIdle == pol = <<>> /\ DistortIdle

ArticIdle == artic = <<>>

TurnIdle == turn = <<>>

RestIdle == PolicyIdle /\ ArticIdle /\ TurnIdle

\* processes sharing one index file
ConcInit == AffectIdle /\ StoreIdle /\ ConcIdle /\ ChainIdle /\ RestIdle

ConcNext == \E p \in Procs : ProcStart(p) \/ ProcStoreOpen(p) \/ ProcStoreDump(p)

ConcSpec == ConcInit /\ [][ConcNext]_vars

\* a chain of either class, built with some policies, in some affect state
ChainInit ==
    /\ AffectIdle /\ StoreIdle /\ ConcIdle /\ RestIdle
    /\ chain \in [kind : {"manager", "base"}, pathologies : PolicyLists]
    /\ heap = StoredHeap(0)
    /\ cog \in [memories : {<<>>}, distorted_memories : {<<>>},
                emotional_state : EmotionalStates]
    /\ trace = <<>>
    /\ phase = "built"

ChainNext == ChainRetrieve \/ ChainProcess

ChainSpec == ChainInit /\ [][ChainNext]_vars

\* a depression policy with some base severity, and an affect state
PolicyInit ==
    /\ AffectIdle /\ StoreIdle /\ ConcIdle /\ ChainIdle /\ ArticIdle /\ TurnIdle
    /\ DistortIdle
    /\ pol \in [base_severity : BaseSeverities,
                emotional_state : [pleasure : PolicyPleasures, cortisol : PolicyCortisols],
                asked : {FALSE}, should_apply : {FALSE}, severity : {0}]

PolicyNext == PolicyAsk

PolicySpec == PolicyInit /\ [][PolicyNext]_vars

\* a policy about to distort a list of up to MaxDistorted records
DistortInit ==
    /\ AffectIdle /\ StoreIdle /\ ConcIdle /\ ChainIdle /\ ArticIdle /\ TurnIdle
    /\ pol = <<>>
    /\ \E n \in 0..MaxDistorted :
        \E recs \in [1..n -> DistortRecords], draws \in [1..n -> DistortDraws],
           policy \in {"depression", "alzheimer"}, es \in EmotionalStates :
            dis = [policy |-> policy, heap |-> RecordsHeap(recs),
                   memories |-> [i \in 1..n |-> i], emotional_state |-> es,
                   draws |-> draws, done |-> FALSE, should_apply |-> FALSE,
                   after |-> RecordsHeap(recs), out |-> <<>>]

DistortNext == PolicyDistort

DistortSpec == DistortInit /\ [][DistortNext]_vars

\* articulate called with some text under some pad_state
ArticInit ==
    /\ AffectIdle /\ StoreIdle /\ ConcIdle /\ ChainIdle /\ PolicyIdle /\ TurnIdle
    /\ artic \in [text : Texts \cup {ScenarioText},
                  pad_state : PadStates \cup {ScenarioPad},
                  done : {FALSE}, actions : {<<>>}]

ArticNext == Articulate

ArticSpec == ArticInit /\ [][ArticNext]_vars

\* a pipeline, its stores empty, and a chat tool with an engine of its own
TurnInit ==
    /\ AffectIdle /\ StoreIdle /\ ConcIdle /\ ChainIdle /\ PolicyIdle /\ ArticIdle
    /\ turn = [calls |-> 0, status |-> "idle", steps |-> <<>>, input |-> "",
               vector |-> <<>>, emotional_state |-> Missing, response |-> Missing,
               stored |-> Missing, actions |-> Missing, llm_failed |-> FALSE,
               log_failed |-> FALSE, history |-> <<>>, update_calls |-> 0,
               user_info |-> [name |-> Missing], tool_engine |-> EngineInit,
               conversation_history |-> <<>>, arrays |-> <<>>,
               distorted_query |-> Missing, retrieved |-> <<>>]

TurnNext == ProcessInput \/ ChatToolProcessInput \/ MotorCortexProcess

TurnSpec == TurnInit /\ [][TurnNext]_vars

AffectInit == AffectIdle /\ StoreIdle /\ ConcIdle /\ ChainIdle /\ RestIdle

AffectNext == Update

AffectSpec == AffectInit /\ [][AffectNext]_vars

\* the store with its persistence: writes and loads may fail
StoreInit == AffectIdle /\ StoreIdle /\ ConcIdle /\ ChainIdle /\ RestIdle

StoreNext == StoreMemory \/ Restart

StoreSpec == StoreInit /\ [][StoreNext]_vars

\* retrieval from either store implementation, as time passes
RetrieveInit ==
    /\ AffectIdle
    /\ RestIdle
    /\ ConcIdle
    /\ ChainIdle
    /\ kind \in {"file", "mock"}
    /\ memories = <<>>
    /\ next_id = 0
    /\ file = NoFile
    /\ clock = 0
    /\ ret = [op |-> "none", raised |-> FALSE, ok |-> TRUE, id |-> 0,
              keys |-> <<>>, limit |-> 0, query |-> <<>>]
    /\ issued = <<>>
    /\ ioFailed = FALSE
    /\ storeCalls = 0
    /\ restarts = 0

RetrieveNext == StoreMemoryWritten \/ Retrieve \/ Tick

RetrieveSpec == RetrieveInit /\ [][RetrieveNext]_vars

----------------------------------------------------------------------------
(* C1: after every update call, for any stimulus deltas (also outside       *)
(* [-1,1]) and any elapsed times, pleasure, arousal and dominance lie in    *)
(* [-1,1] and dopamine and cortisol lie in [0,1].                           *)
C1_Clamped ==
    updates > 0 =>
        /\ engine.pleasure \in -Scale..Scale
        /\ engine.arousal \in -Scale..Scale
        /\ engine.dominance \in -Scale..Scale
        /\ engine.dopamine \in 0..Scale
        /\ engine.cortisol \in 0..Scale

\* a second update whose pleasure delta is below -1 and which left pleasure
\* on the lower bound and dopamine inside its range
C1_Witness ==
    /\ updates = 2
    /\ lastStimulus.pleasure < -Scale
    /\ engine.pleasure = -Scale
    /\ engine.dopamine \in 0..Scale

----------------------------------------------------------------------------
(* C2: retrieve(queryVector, limit) returns at most limit records, each one *)
(* a record currently in the store and none repeated; on an empty store it  *)
(* returns the empty sequence without raising.                              *)
StoreKeys == {memories[i].key : i \in 1..Len(memories)}

C2_RetrievalBound ==
    ret.op = "retrieve" =>
        /\ ~ret.raised
        /\ Len(ret.keys) <= ret.limit
        /\ \A i \in 1..Len(ret.keys) : ret.keys[i] \in StoreKeys
        /\ \A i, j \in 1..Len(ret.keys) : ret.keys[i] = ret.keys[j] => i = j
        /\ memories = <<>> => ret.keys = <<>>

\* a retrieval that had to cut three stored records down to the limit of two
C2_Witness ==
    /\ ret.op = "retrieve"
    /\ Len(memories) = 3
    /\ ret.limit = 2
    /\ Len(ret.keys) = 2

(* C3: retrieve returns the min(limit, number of stored records) records    *)
(* with the highest composite score 0.7 * cosine + 0.3 * importance (the    *)
(* cosine of a zero vector being 0), in descending score order, records of  *)
(* equal score in insertion order.                                          *)
ClaimedScore(memory, query_vector, current_time) ==
    LET cos == CosineSimilarity(query_vector, memory.vector.items)
    IN  Mul(IF cos.nan THEN 0 ELSE cos.v, 700)
          + Mul(ImportanceScore(memory, current_time), 300)

\* the position of stored record i in the claimed ranking
ClaimedRank(i, query_vector) ==
    LET sc(k) == ClaimedScore(memories[k].value, query_vector, clock)
    IN  1 + Cardinality({j \in 1..Len(memories) :
                            sc(j) > sc(i) \/ (sc(j) = sc(i) /\ j < i)})

ClaimedResult(query_vector, limit) ==
    [r \in 1..Min(limit, Len(memories)) |->
        memories[CHOOSE i \in 1..Len(memories) : ClaimedRank(i, query_vector) = r].key]

C3_RankedByScore ==
    (kind = "file" /\ ret.op = "retrieve") =>
        ret.keys = ClaimedResult(ret.query, ret.limit)

(* C4: across any sequence of successful store calls, restarts included,    *)
(* the ids returned are pairwise distinct and strictly increasing in call   *)
(* order, each id keys exactly the record stored by that call, and no       *)
(* earlier record is overwritten or removed by a later store.               *)
IdsIncreasing == \A i, j \in 1..Len(issued) : i < j => issued[i].id < issued[j].id

IssuedRecordsKept ==
    \A i \in 1..Len(issued) :
        \E k \in 1..Len(memories) :
            memories[k].key = issued[i].id /\ memories[k].value = issued[i].value

C5_RoundTrip ==
    [][(ret.op = "store" /\ ~ret.raised /\ ret.ok /\ ret'.op = "load" /\ ret'.ok)
         => (memories' = memories /\ next_id' = next_id)]_vars

\* a new instance that loaded two records written by its predecessor
C5_Witness ==
    /\ ret.op = "load"
    /\ ret.ok
    /\ ~ioFailed
    /\ Len(memories) = 2
    /\ next_id = 2

(* C6: store accesses of concurrent turns against the same persisted store  *)
(* are serialized: no start-up or turn loads a partially written index, and *)
(* once the turns that each stored a record have finished, the persisted    *)
(* index holds all their records under distinct ids.                        *)
PersistedIndex == IF file.state = "json" THEN JsonLoad(file.data[1]).memories ELSE <<>>

C6_Serialized ==
    /\ ~sawPartial
    /\ (\A p \in Procs : pc[p] = "ready" /\ turns[p] >= 1) =>
          /\ \A i, j \in 1..Len(issued) : i # j => issued[i].id # issued[j].id
          /\ \A i \in 1..Len(issued) :
                \E k \in 1..Len(PersistedIndex) :
                    /\ PersistedIndex[k].key = issued[i].id
                    /\ PersistedIndex[k].value = issued[i].value

(* C7: the manager applies the policies in registration order, clones the   *)
(* raw memories once only, hands every applying policy exactly the list the *)
(* previous policy produced, and a record an earlier policy dropped is in   *)
(* no later policy's input or output, also when every record was dropped.   *)
TraceRids(list) == {list[k] : k \in 1..Len(list)}
C7_ChainCompounds ==
    (phase = "returned" /\ chain.kind = "manager") =>
        /\ \A k \in 1..Len(trace) : trace[k].index = k - 1
        /\ Cardinality({k \in 1..Len(trace) : trace[k].cloned}) <= 1
        /\ \A k \in 2..Len(trace) :
              trace[k].called => trace[k].input = trace[k - 1].after
        /\ \A j \in 1..Len(trace) : \A k \in (j + 1)..Len(trace) :
              /\ TraceRids(trace[k].input) \subseteq TraceRids(trace[j].after)
              /\ TraceRids(trace[k].after) \subseteq TraceRids(trace[j].after)

(* C8: a policy that raises is skipped with the state as it was before that *)
(* policy ran, every later policy is still invoked, and the chain returns   *)
(* normally to its caller.                                                  *)
C8_RaisingPolicySkipped ==
    phase \in {"returned", "raised"} =>
        /\ phase = "returned"
        /\ \A i \in 1..Len(chain.pathologies) :
              \E k \in 1..Len(trace) : trace[k].index = i
        /\ \A k \in 1..Len(trace) :
              trace[k].raised => trace[k].after = trace[k].before

(* C9: after the chain has run, the distorted memories are records of the   *)
(* raw memories, each at most once, in the raw memories' order.             *)
C9_DerivedFromRaw ==
    phase = "returned" =>
        LET rids == Rids(heap, cog.distorted_memories)
        IN  /\ \A k \in 1..Len(rids) : rids[k] \in TraceRids(Rids(heap, cog.memories))
            /\ \A j \in 1..Len(rids) : \A k \in (j + 1)..Len(rids) : rids[j] < rids[k]

\* two policies distorted; a record was dropped and two were kept
C9_Witness ==
    /\ phase = "returned"
    /\ Cardinality({k \in 1..Len(trace) : trace[k].called}) >= 2
    /\ Len(cog.memories) = 3
    /\ Len(cog.distorted_memories) = 2

(* C10: the chain leaves every record of the store, and the raw memories    *)
(* list, as they were: scaling is applied to copies only.                   *)
C10_StoreUntouched ==
    phase \in {"returned", "raised"} =>
        LET n == Len(cog.memories)
        IN  /\ cog.memories = [i \in 1..n |-> i]
            /\ \A i \in 1..n : /\ heap.mems[i] = StoredHeap(n).mems[i]
                               /\ heap.pads[i] = StoredHeap(n).pads[i]

\* the pipeline's chain returned a record whose pleasure it scaled
C10_Witness ==
    /\ phase = "returned"
    /\ chain.kind = "base"
    /\ \E k \in 1..Len(cog.distorted_memories) :
          LET m == heap.mems[cog.distorted_memories[k]]
          IN  heap.pads[m.pad].pleasure # StoredPleasure(m.rid)

(* C15: a persistence failure is never raised to the caller: a store whose  *)
(* file write fails still returns the new id and keeps the record in the    *)
(* in-memory index; a start-up whose read of the file fails begins with an  *)
(* empty index and next-id 0.                                               *)
C15_PersistenceFailureContained ==
    /\ (ret.op = "store" /\ ~ret.ok) =>
          /\ ~ret.raised
          /\ ret.id = next_id - 1
          /\ issued # <<>>
          /\ issued[Len(issued)].id = ret.id
          /\ \E k \in 1..Len(memories) :
                /\ memories[k].key = ret.id
                /\ memories[k].value = issued[Len(issued)].value
    /\ (ret.op = "load" /\ ~ret.ok) =>
          /\ ~ret.raised
          /\ memories = <<>>
          /\ next_id = 0

\* after a restart, a store whose file write failed returned its id
C15_Witness ==
    /\ ret.op = "store"
    /\ ~ret.ok
    /\ ~ret.raised
    /\ restarts = 1
    /\ Len(memories) >= 1

(* C18: an update with no new stimulus after elapsed time dt leaves each of *)
(* the five axes at baseline + (previous - baseline) * 2^(-dt/H).           *)
NoStimulus(s) == s.pleasure = 0 /\ s.arousal = 0 /\ s.dominance = 0

Decayed(previous, baseline, dt, half_life) ==
    baseline + Mul(previous - baseline, DecayFactor(dt, half_life))

C18_PureDecay ==
    [][(updates' = updates + 1 /\ NoStimulus(lastStimulus')) =>
          LET dt == lastStimulus'.time_delta
          IN  /\ engine'.pleasure = Decayed(engine.pleasure, 0, dt, half_life_pleasure)
              /\ engine'.arousal = Decayed(engine.arousal, 0, dt, half_life_arousal)
              /\ engine'.dominance = Decayed(engine.dominance, 0, dt, half_life_dominance)
              /\ engine'.dopamine = Decayed(engine.dopamine, 500, dt, half_life_dopamine)
              /\ engine'.cortisol = Decayed(engine.cortisol, 300, dt, half_life_cortisol)]_vars

\* as amended: the three PAD axes follow the decay formula; dopamine and
\* cortisol end at the formula's value plus the cross-coupling term of that
\* update (0.1 * pleasure, 0.1 * |arousal| of the decayed state), clamped to
\* [0, 1], so they follow the formula exactly when that term is 0
C18_DecayThenCoupling ==
    [][(updates' = updates + 1 /\ NoStimulus(lastStimulus')) =>
          LET dt == lastStimulus'.time_delta
          IN  /\ engine'.pleasure = Decayed(engine.pleasure, 0, dt, half_life_pleasure)
              /\ engine'.arousal = Decayed(engine.arousal, 0, dt, half_life_arousal)
              /\ engine'.dominance = Decayed(engine.dominance, 0, dt, half_life_dominance)
              /\ engine'.dopamine =
                     Clamp(0, Scale, Decayed(engine.dopamine, 500, dt, half_life_dopamine)
                                        + Mul(engine'.pleasure, 100))
              /\ engine'.cortisol =
                     Clamp(0, Scale, Decayed(engine.cortisol, 300, dt, half_life_cortisol)
                                        + Mul(Abs(engine'.arousal), 100))
              /\ (engine'.pleasure = 0 =>
                     engine'.dopamine = Decayed(engine.dopamine, 500, dt, half_life_dopamine))
              /\ (engine'.arousal = 0 =>
                     engine'.cortisol = Decayed(engine.cortisol, 300, dt, half_life_cortisol))]_vars

\* pleasure 0.4 and dopamine 0.54 an hour before a stimulus-free update
C18_Witness ==
    /\ updates = 2
    /\ NoStimulus(lastStimulus)
    /\ lastStimulus.time_delta = 3600
    /\ engine.pleasure = 200
    /\ engine.dopamine = 520

(* C19: when the query vector or a stored record's vector is the zero       *)
(* vector, retrieve takes the cosine of that pair to be 0, so the record's  *)
(* score is the number 0.3 * importance.                                    *)
IsZeroVector(v) == \A i \in 1..Len(v) : v[i] = 0

C19_ZeroVectorGuarded ==
    (kind = "file" /\ ret.op = "retrieve") =>
        \A k \in 1..Len(memories) :
            LET memory == memories[k].value
            IN  (IsZeroVector(ret.query) \/ IsZeroVector(memory.vector.items)) =>
                    TotalScore(memory, ret.query, clock)
                        = Num(Mul(ImportanceScore(memory, clock), 300))

(* C20: the depression policy's should_apply is true exactly when cortisol  *)
(* > 0.4 or pleasure < -0.2 (strict); at cortisol 0.4 and pleasure -0.3 it  *)
(* is true and the severity computed equals the base severity.              *)
C20_DepressionApplies ==
    pol.asked =>
        LET es == pol.emotional_state
        IN  /\ pol.should_apply <=> (es.cortisol > 400 \/ es.pleasure < -200)
            /\ (es.cortisol = 400 /\ es.pleasure = -300) =>
                  (pol.should_apply /\ pol.severity = pol.base_severity)

\* the policy was asked at cortisol 0.4 and pleasure -0.3
C20_Witness ==
    /\ pol.asked
    /\ pol.emotional_state = [pleasure |-> -300, cortisol |-> 400]
    /\ pol.should_apply
    /\ pol.severity = 800

(* C11: for a text of n >= 1 segments articulate emits, per segment in      *)
(* order, one typing action, one stress-pause wait exactly when cortisol >  *)
(* 0.7, one message holding the segment, and one hesitation wait exactly    *)
(* when the segment is not the last; nothing else.                          *)
ActionTypes(actions) == [k \in 1..Len(actions) |-> actions[k].action_type]

RECURSIVE ClaimedStream(_, _, _)
ClaimedStream(n, stressed, i) ==
    IF i > n THEN <<>>
    ELSE <<"typing">> \o (IF stressed THEN <<"wait">> ELSE <<>>) \o <<"message">>
           \o (IF i < n THEN <<"wait">> ELSE <<>>) \o ClaimedStream(n, stressed, i + 1)

MessageContents(actions) ==
    LET messages == SelectSeq(actions, LAMBDA a : a.action_type = "message")
    IN  [k \in 1..Len(messages) |-> messages[k].content]

CountOf(actions, type) == Cardinality({k \in 1..Len(actions) : actions[k].action_type = type})

C11_EmissionOrder ==
    artic.done =>
        LET segments == SegmentText(artic.text, artic.pad_state)
            n == Len(segments)
            stressed == Get(artic.pad_state.cortisol, 0) > 700
        IN  n >= 1 =>
              /\ ActionTypes(artic.actions) = ClaimedStream(n, stressed, 1)
              /\ MessageContents(artic.actions) = segments
              /\ artic.actions[Len(artic.actions)].action_type = "message"
              /\ CountOf(artic.actions, "typing") = n
              /\ CountOf(artic.actions, "message") = n
              /\ CountOf(artic.actions, "wait") = (n - 1) + (IF stressed THEN n ELSE 0)

\* two segments articulated at cortisol exactly 0.7: no stress pause
C11_Witness ==
    /\ artic.done
    /\ artic.pad_state.cortisol = Present(700)
    /\ ActionTypes(artic.actions) = <<"typing", "message", "wait", "typing", "message">>

(* C12: the contents of the message actions, concatenated in order, give    *)
(* back the text with only whitespace removed: no other character is lost,  *)
(* duplicated or moved.                                                     *)
NonWhitespace(s) == SelectSeq(s, LAMBDA c : c \notin Whitespace)

C12_TotalCoverage ==
    artic.done =>
        LET said == Concat(MessageContents(artic.actions))
        IN  /\ NonWhitespace(said) = NonWhitespace(artic.text)
            /\ Len(said) <= Len(artic.text)

\* a text with whitespace between two sentences, sent as two messages
C12_Witness ==
    /\ artic.done
    /\ Len(MessageContents(artic.actions)) = 2
    /\ Len(Concat(MessageContents(artic.actions))) < Len(artic.text)
    /\ \E i \in 1..Len(artic.text) : artic.text[i] \in SentenceMarks

(* C13: every turn yields at least one message action: whatever happens in  *)
(* the turn (language-model failure, empty or whitespace-only reply text,   *)
(* persistence or logging failure), a reply is produced and the turn's      *)
(* action stream holds at least one message.                                *)
TurnOver ==
    \/ turn.status \in {"raised", "caught"}
    \/ turn.status = "returned" /\ turn.actions # Missing

C13_AlwaysAMessage ==
    TurnOver =>
        /\ turn.response # Missing
        /\ turn.actions # Missing
        /\ CountOf(turn.actions[1], "message") >= 1

(* C14: when the language-model call fails the turn still completes: the    *)
(* reply is the fallback phrase, which depends on the affect state and the  *)
(* known user name only, and the remaining stages run, the store step       *)
(* storing the turn's record with that reply.                               *)
C14_FallbackReply ==
    turn.llm_failed =>
        /\ turn.status = "returned"
        /\ turn.steps = Stages
        /\ turn.response = Present(FallbackExpression(turn.emotional_state[1],
                                                      turn.user_info))
        /\ turn.stored # Missing
        /\ \E k \in 1..Len(memories) :
              /\ memories[k].key = turn.stored[1]
              /\ memories[k].value.system_response = turn.response[1]
              /\ memories[k].value.user_input = turn.input

\* the model failed for a user whose name is known: the phrase carries the name
C14_Witness ==
    /\ turn.llm_failed
    /\ turn.status = "returned"
    /\ turn.user_info.name = Present(<<"A", "n", "n">>)
    /\ turn.response = Present(<<"A", "n", "n">> \o <<",">> \o PhraseHere)
    /\ turn.stored = Present(1)

(* C16: when appending the snapshot to the durable log fails during an      *)
(* affect update, the updated affect state is still returned and the turn   *)
(* goes on to retrieval and reply; the failure is not raised to the caller. *)
C16_LogFailureNotRaised ==
    turn.log_failed =>
        /\ turn.status = "returned"
        /\ turn.emotional_state = Present(GetState(engine))
        /\ \E k \in 1..Len(turn.steps) : turn.steps[k] = "retrieval"
        /\ turn.response # Missing

(* C17: every affect update call appends exactly one snapshot of the        *)
(* post-update state to the durable history before it returns, and entries  *)
(* already logged are never modified or removed.                            *)
C17_SnapshotPerUpdate ==
    [][\/ /\ turn'.update_calls = turn.update_calls
          /\ turn'.history = turn.history
       \/ /\ turn'.update_calls = turn.update_calls + 1
          /\ Len(turn'.history) = Len(turn.history) + 1
          /\ SubSeq(turn'.history, 1, Len(turn.history)) = turn.history
          /\ LET row == turn'.history[Len(turn'.history)]
             IN  /\ row.pleasure = engine'.pleasure
                 /\ row.arousal = engine'.arousal
                 /\ row.dominance = engine'.dominance
                 /\ row.dopamine = engine'.dopamine
                 /\ row.cortisol = engine'.cortisol
                 /\ row.timestamp = engine'.last_update_time]_vars

(* C21: for a fixed base severity and fixed pleasure, the severity the      *)
(* depression policy computes, min(1, base + max(0, cortisol - 0.4)), never *)
(* decreases as cortisol increases, and neither does the drop probability   *)
(* 0.8 * severity.                                                          *)
C21_SeverityMonotone ==
    pol.asked =>
        LET es == pol.emotional_state
        IN  /\ pol.severity = Min(Scale, pol.base_severity + Max(0, es.cortisol - 400))
            /\ \A c \in PolicyCortisols :
                  c <= es.cortisol =>
                      LET lower == DynamicSeverity(pol.base_severity,
                                                   [es EXCEPT !.cortisol = c])
                      IN  /\ lower <= pol.severity
                          /\ Mul(800, lower) <= Mul(800, pol.severity)

\* a policy of base severity 0.1 asked at cortisol 0.7: severity 0.4, above
\* the 0.1 it computes at cortisol 0.4
C21_Witness ==
    /\ pol.asked
    /\ pol.base_severity = 100
    /\ pol.emotional_state.cortisol = 700
    /\ pol.severity = 400
    /\ DynamicSeverity(100, [pol.emotional_state EXCEPT !.cortisol = 400]) = 100

(* C22: the depression policy's distort_memories never drops a record of    *)
(* pleasure <= 0.2; a record of pleasure > 0.2 is dropped or retained;      *)
(* every retained record has its pleasure multiplied by 1 - 0.8 * severity  *)
(* and all its other fields unchanged.                                      *)
DistortRetained(i) == \E k \in 1..Len(dis.out) : dis.after.mems[dis.out[k]].rid = i

DistortOrderKept ==
    \A j, k \in 1..Len(dis.out) :
        j < k => dis.after.mems[dis.out[j]].rid < dis.after.mems[dis.out[k]].rid

C22_DepressionDistort ==
    (dis.done /\ dis.policy = "depression") =>
        LET es == dis.emotional_state
            severity == Min(Scale, base_severity + Max(0, es.cortisol - 400))
        IN  /\ \A i \in 1..Len(dis.memories) :
                  dis.heap.pads[dis.heap.mems[i].pad].pleasure <= 200 => DistortRetained(i)
            /\ DistortOrderKept
            /\ \A k \in 1..Len(dis.out) :
                  LET kept == dis.after.mems[dis.out[k]]
                      orig == dis.heap.mems[kept.rid]
                      kept_pad == dis.after.pads[kept.pad]
                      orig_pad == dis.heap.pads[orig.pad]
                  IN  /\ kept.timestamp = orig.timestamp
                      /\ kept_pad.arousal = orig_pad.arousal
                      /\ kept_pad.dominance = orig_pad.dominance
                      /\ kept_pad.pleasure =
                            Mul(orig_pad.pleasure, Scale - Mul(800, severity))

\* under cortisol 0.9 a record of pleasure 0.6 was dropped on a draw of 0.3
\* and the record of pleasure 0.2 after it was kept, scaled
C22_Witness ==
    /\ dis.done /\ dis.policy = "depression"
    /\ dis.emotional_state.cortisol = 900
    /\ Len(dis.memories) = 2
    /\ dis.heap.pads[1].pleasure = 600 /\ dis.draws[1] = 300
    /\ dis.heap.pads[2].pleasure = 200
    /\ ~DistortRetained(1) /\ DistortRetained(2)
    /\ dis.after.pads[dis.after.mems[dis.out[1]].pad].pleasure = 72

(* C23: the Alzheimer policy applies under every affect state and drops a   *)
(* record only if its age (turn timestamp minus record timestamp) is under  *)
(* one week: under 1 day it is in the 0.8 * severity tier, from 1 day up to *)
(* 1 week in the 0.5 * severity tier; a record older than 1 week is always  *)
(* retained, unmodified.                                                    *)
C23_AlzheimerTiers ==
    (dis.done /\ dis.policy = "alzheimer") =>
        /\ dis.should_apply
        /\ dis.after = dis.heap
        /\ DistortOrderKept
        /\ \A k \in 1..Len(dis.out) : dis.out[k] \in 1..Len(dis.memories)
        /\ \A i \in 1..Len(dis.memories) :
              LET age == dis.emotional_state.timestamp - dis.heap.mems[i].timestamp
                  dropped == ~DistortRetained(i)
              IN  /\ age >= OneWeek => ~dropped
                  /\ age < OneDay =>
                        (dropped <=> dis.draws[i] < Mul(800, alzheimer_severity))
                  /\ (age >= OneDay /\ age < OneWeek) =>
                        (dropped <=> dis.draws[i] < Mul(500, alzheimer_severity))

\* on draws of 0.3 the record one second short of a day was dropped and the
\* record of exactly one day was kept
C23_Witness ==
    /\ dis.done /\ dis.policy = "alzheimer"
    /\ Len(dis.memories) = 2
    /\ dis.emotional_state.timestamp - dis.heap.mems[1].timestamp = OneDay - 1
    /\ dis.emotional_state.timestamp - dis.heap.mems[2].timestamp = OneDay
    /\ dis.draws = <<300, 300>>
    /\ dis.out = <<2>>

(* C24: segmentation flushes its buffer only at a sentence-terminal mark    *)
(* and only when the buffer length is at least min_segment_length * m, m =  *)
(* 0.5 if dopamine > 0.8, otherwise 0.8 if arousal > 0.5 and dominance <    *)
(* -0.3, otherwise 1.0: every segment but possibly the last ends in a       *)
(* terminal mark and has at least that length, and no segment is empty.     *)
ClaimedMultiplier(pad_state) ==
    IF Get(pad_state.dopamine, 0) > 800 THEN 500
    ELSE IF pad_state.arousal > 500 /\ pad_state.dominance < -300 THEN 800
    ELSE 1000

C24_FlushAtMarkAndLength ==
    artic.done =>
        LET segs == MessageContents(artic.actions)
        IN  /\ \A k \in 1..Len(segs) : segs[k] # <<>>
            /\ \A k \in 1..(Len(segs) - 1) :
                  /\ segs[k][Len(segs[k])] \in SentenceMarks
                  /\ Len(segs[k]) * Scale
                        >= min_segment_length * ClaimedMultiplier(artic.pad_state)

\* in burst mode two sentences of five characters are two segments
C24_Witness ==
    /\ artic.done
    /\ Get(artic.pad_state.dopamine, 0) = 900
    /\ artic.text = <<"a", "b", "c", "d", ".", "a", "b", "c", "d", ".">>
    /\ MessageContents(artic.actions) = << <<"a", "b", "c", "d", ".">>,
                                           <<"a", "b", "c", "d", ".">> >>

(* C25: in the default configuration, articulating the scenario text (two   *)
(* sentences of three and six characters) under pleasure 0.6, arousal 0.6,  *)
(* dominance 0, dopamine 0.5, cortisol 0.2 gives two segments: the stream   *)
(* is typing, message, wait, typing, message, with one wait (the hesitation *)
(* between the segments) and no stress pause.                               *)
C25_ScenarioTwoSegments ==
    (artic.done /\ artic.text = ScenarioText /\ artic.pad_state = ScenarioPad) =>
        /\ MessageContents(artic.actions) = << <<"n", "h", ".">>,
                                               <<"j", "t", "h", "k", "x", "!">> >>
        /\ ActionTypes(artic.actions)
              = <<"typing", "message", "wait", "typing", "message">>
        /\ CountOf(artic.actions, "wait") = 1

(* C26: the cross-coupling step of an update, applied after decay and       *)
(* stimulus, never lowers a neurotransmitter: dopamine is raised in         *)
(* proportion to pleasure only when pleasure is positive and is left as the *)
(* decay left it when pleasure <= 0; cortisol is raised in proportion to    *)
(* |arousal|.                                                               *)
C26_CouplingNeverLowers ==
    [][updates' = updates + 1 =>
          LET dt == lastStimulus'.time_delta
              pleasure == Decayed(engine.pleasure, 0, dt, half_life_pleasure)
                             + lastStimulus'.pleasure
              arousal == Decayed(engine.arousal, 0, dt, half_life_arousal)
                             + lastStimulus'.arousal
              dopamine == Decayed(engine.dopamine, 500, dt, half_life_dopamine)
              cortisol == Decayed(engine.cortisol, 300, dt, half_life_cortisol)
          IN  /\ engine'.dopamine >= dopamine
              /\ engine'.cortisol >= cortisol
              /\ pleasure <= 0 => engine'.dopamine = dopamine
              /\ pleasure > 0 =>
                    engine'.dopamine = Clamp(0, Scale, dopamine + Mul(pleasure, 100))
              /\ engine'.cortisol = Clamp(0, Scale, cortisol + Mul(Abs(arousal), 100))]_vars

(* C27: for arousal in [-1, 1] and dopamine in [0, 1] the speed modifier of *)
(* a segment's typing duration is clamp(1 + 0.5 * arousal, 0.5, 2.0), times *)
(* 1.3 when dopamine > 0.8, and the typing duration is segment length /     *)
(* (base_wpm * modifier * 5 / 60) * noise with noise in [0.9, 1.1].         *)
ClaimedSpeedModifier(pad_state) ==
    LET clamped == Clamp(500, 2000, Scale + Mul(pad_state.arousal, 500))
    IN  IF Get(pad_state.dopamine, 0) > 800 THEN Mul(clamped, 1300) ELSE clamped

ClaimedBaseDelay(text_length, pad_state) ==
    (text_length * Scale * Scale * 60)
        \div (base_wpm * ClaimedSpeedModifier(pad_state) * 5)

C27_TypingDuration ==
    artic.done =>
        \A k \in 1..Len(artic.actions) :
            artic.actions[k].action_type = "typing" =>
                LET segment == CHOOSE j \in (k + 1)..Len(artic.actions) :
                                  /\ artic.actions[j].action_type = "message"
                                  /\ \A i \in (k + 1)..(j - 1) :
                                        artic.actions[i].action_type # "message"
                    base_delay == ClaimedBaseDelay(Len(artic.actions[segment].content),
                                                   artic.pad_state)
                IN  /\ artic.actions[k].duration >= Mul(base_delay, 900)
                    /\ artic.actions[k].duration <= Mul(base_delay, 1100)

\* five characters typed at arousal 1, dopamine 1: modifier 1.95, noise 0.9
C27_Witness ==
    /\ artic.done
    /\ artic.pad_state.arousal = 1000
    /\ artic.pad_state.dopamine = Present(1000)
    /\ artic.text = <<"a", "b", "c", "d", ".">>
    /\ artic.actions[1].action_type = "typing"
    /\ artic.actions[1].duration = 460

(* C28: within a turn the stages run in a fixed order: affect update, then  *)
(* retrieval and distortion, then reply generation, then the store step.    *)
(* One record is stored per completed turn, after the reply exists: the     *)
(* memories retrieved for a turn never include the turn's own record, and   *)
(* the store grows by exactly one record per turn.                          *)
C28_StoreAfterRespond ==
    [][(turn'.calls = turn.calls + 1 /\ turn'.status = "returned") =>
          /\ turn'.steps = <<"perception", "chemistry", "retrieval", "reconstruction",
                             "expression", "store">>
          /\ turn'.response # Missing
          /\ storeCalls' = storeCalls + 1
          /\ Len(memories') = Len(memories) + 1
          /\ \A k \in 1..Len(memories) : memories'[k] = memories[k]
          /\ LET own == memories'[Len(memories')]
             IN  /\ own.key = turn'.stored[1]
                 /\ own.value.system_response = turn'.response[1]
                 /\ own.value.emotional_state = GetState(engine')
                 /\ \A k \in 1..Len(turn'.retrieved) :
                       /\ turn'.retrieved[k] # own.key
                       /\ \E j \in 1..Len(memories) :
                             memories[j].key = turn'.retrieved[k]]_vars

\* the second turn retrieved the first turn's record and stored its own
C28_Witness ==
    /\ turn.calls = 2
    /\ turn.status = "returned"
    /\ turn.retrieved = <<0>>
    /\ turn.stored = Present(1)
    /\ Len(memories) = 2

(* C30: query distortion never alters the turn's original query vector:     *)
(* whatever policies apply, the vector used for retrieval is a distorted    *)
(* copy, and the record stored at the end of the turn carries the           *)
(* undistorted embedding of the user input.                                 *)
C30_QueryVectorKept ==
    turn.distorted_query # Missing =>
        /\ turn.arrays[1] = turn.vector
        /\ turn.distorted_query[1] # 1
        /\ turn.status = "returned" =>
              \E k \in 1..Len(memories) :
                  /\ memories[k].key = turn.stored[1]
                  /\ memories[k].value.vector.items = turn.vector

\* both policies distorted the query of "I'm Ann. sad wow" and the record
\* stored holds the embedding as it was
C30_Witness ==
    /\ turn.status = "returned"
    /\ turn.vector = <<4, 3>>
    /\ turn.distorted_query # Missing
    /\ turn.arrays[turn.distorted_query[1]] = <<11, -10>>
    /\ \E k \in 1..Len(memories) :
          /\ memories[k].key = turn.stored[1]
          /\ memories[k].value.vector.items = <<4, 3>>

(* C29: a store call rejected because the record carries no vector leaves   *)
(* the store as it was: the in-memory index, the next-id counter and the    *)
(* persisted file are unchanged, so the rejected call consumes no id.       *)
C29_RejectedStoreNoEffect ==
    [][(storeCalls' = storeCalls + 1 /\ ret'.op = "store" /\ ret'.raised) =>
          /\ memories' = memories
          /\ file' = file
          /\ next_id' = next_id]_vars

============================================================================
